---------------------------- MODULE Spec2Model ----------------------------
(***************************************************************************)
(* A model of the SAINT desktop agent (src/assistantMain.py): the natural- *)
(* language grammar parse_nl_to_action, the dispatcher                     *)
(* nl_execute_from_text with the conversational responder                  *)
(* RobotHead.chat_single_answer, the speech output RobotHead.tts_say /     *)
(* tts_stop, and the VoiceListener thread.                                 *)
(*                                                                         *)
(* Texts are TLA+ strings; TLC evaluates Len, SubSeq, Tail and \o on them, *)
(* so the regular expressions of the grammar are translated character by   *)
(* character.  Texts are single-line (no "\n"): "." and "$" of the regular *)
(* expressions are translated for single-line input.                       *)
(***************************************************************************)
EXTENDS Integers, Sequences, FiniteSets, TLC

(***************************************************************************)
(* Bounds of the model.                                                    *)
(***************************************************************************)
\* Python's interpreter recursion limit (sys.getrecursionlimit(), 1000 by
\* default), counted in calls of nl_execute_from_text / chat_single_answer.
RecursionLimit == 3
\* Calls of nl_execute_from_text explored in one behaviour.
MaxCalls == 2
\* TTS worker threads alive at the same time.
MaxWorkers == 2
\* dispatches made by each thread
MaxRecords == 3

(***************************************************************************)
(* Strings.                                                                *)
(***************************************************************************)
Ch(s, i) == SubSeq(s, i, i)
Take(s, n) == SubSeq(s, 1, n)
Drop(s, n) == SubSeq(s, n + 1, Len(s))
StartsWith(s, p) == Len(p) <= Len(s) /\ Take(s, Len(p)) = p
EndsWith(s, p) == Len(p) <= Len(s) /\ Drop(s, Len(s) - Len(p)) = p
\* p in s
Contains(s, p) == \E i \in 0..(Len(s) - Len(p)) : SubSeq(s, i + 1, i + Len(p)) = p
\* s.rfind(p) as a count of characters before the last occurrence, -1 if none
LastIndexOf(s, p) ==
    LET I == {i \in 0..(Len(s) - Len(p)) : SubSeq(s, i + 1, i + Len(p)) = p}
    IN IF I = {} THEN -1 ELSE CHOOSE i \in I : \A j \in I : j <= i

\* \s of the regular expressions and the characters str.strip() removes
Whitespace == {" ", "\t"}
IsSpace(c) == c \in Whitespace
DigitChars == {"0", "1", "2", "3", "4", "5", "6", "7", "8", "9"}
IsDigit(c) == c \in DigitChars
LowerLetters == {"a", "b", "c", "d", "e", "f", "g", "h", "i", "j", "k", "l", "m",
                 "n", "o", "p", "q", "r", "s", "t", "u", "v", "w", "x", "y", "z"}
UpperLetters == {"A", "B", "C", "D", "E", "F", "G", "H", "I", "J", "K", "L", "M",
                 "N", "O", "P", "Q", "R", "S", "T", "U", "V", "W", "X", "Y", "Z"}
IsLetter(c) == c \in LowerLetters \/ c \in UpperLetters
\* \w of the regular expressions
IsWordChar(c) == IsLetter(c) \/ IsDigit(c) \/ c = "_"

\* str.lower() of one character
LowerChar(c) ==
    CASE c = "A" -> "a" [] c = "B" -> "b" [] c = "C" -> "c" [] c = "D" -> "d"
      [] c = "E" -> "e" [] c = "F" -> "f" [] c = "G" -> "g" [] c = "H" -> "h"
      [] c = "I" -> "i" [] c = "J" -> "j" [] c = "K" -> "k" [] c = "L" -> "l"
      [] c = "M" -> "m" [] c = "N" -> "n" [] c = "O" -> "o" [] c = "P" -> "p"
      [] c = "Q" -> "q" [] c = "R" -> "r" [] c = "S" -> "s" [] c = "T" -> "t"
      [] c = "U" -> "u" [] c = "V" -> "v" [] c = "W" -> "w" [] c = "X" -> "x"
      [] c = "Y" -> "y" [] c = "Z" -> "z" [] OTHER -> c
\* str.upper() of one character
UpperChar(c) ==
    CASE c = "a" -> "A" [] c = "b" -> "B" [] c = "c" -> "C" [] c = "d" -> "D"
      [] c = "e" -> "E" [] c = "f" -> "F" [] c = "g" -> "G" [] c = "h" -> "H"
      [] c = "i" -> "I" [] c = "j" -> "J" [] c = "k" -> "K" [] c = "l" -> "L"
      [] c = "m" -> "M" [] c = "n" -> "N" [] c = "o" -> "O" [] c = "p" -> "P"
      [] c = "q" -> "Q" [] c = "r" -> "R" [] c = "s" -> "S" [] c = "t" -> "T"
      [] c = "u" -> "U" [] c = "v" -> "V" [] c = "w" -> "W" [] c = "x" -> "X"
      [] c = "y" -> "Y" [] c = "z" -> "Z" [] OTHER -> c

RECURSIVE Lower(_)
Lower(s) == IF s = "" THEN "" ELSE LowerChar(Ch(s, 1)) \o Lower(Tail(s))
RECURSIVE Upper(_)
Upper(s) == IF s = "" THEN "" ELSE UpperChar(Ch(s, 1)) \o Upper(Tail(s))

RECURSIVE LStrip(_)
LStrip(s) == IF s # "" /\ IsSpace(Ch(s, 1)) THEN LStrip(Tail(s)) ELSE s
RECURSIVE RStrip(_)
RStrip(s) == IF s # "" /\ IsSpace(Ch(s, Len(s))) THEN RStrip(Take(s, Len(s) - 1)) ELSE s
\* str.strip()
Strip(s) == RStrip(LStrip(s))

\* the number of leading characters of s that are whitespace (a greedy \s*)
RECURSIVE SpaceRun(_)
SpaceRun(s) == IF s # "" /\ IsSpace(Ch(s, 1)) THEN 1 + SpaceRun(Tail(s)) ELSE 0
\* the number of leading characters of s that are digits (a greedy \d*)
RECURSIVE DigitRun(_)
DigitRun(s) == IF s # "" /\ IsDigit(Ch(s, 1)) THEN 1 + DigitRun(Tail(s)) ELSE 0
\* the number of leading characters of s that are word characters (a greedy \w*)
RECURSIVE WordRun(_)
WordRun(s) == IF s # "" /\ IsWordChar(Ch(s, 1)) THEN 1 + WordRun(Tail(s)) ELSE 0

DigitVal(c) ==
    CASE c = "0" -> 0 [] c = "1" -> 1 [] c = "2" -> 2 [] c = "3" -> 3 [] c = "4" -> 4
      [] c = "5" -> 5 [] c = "6" -> 6 [] c = "7" -> 7 [] c = "8" -> 8 [] c = "9" -> 9
\* int(s) of a string of digits
RECURSIVE ToInt(_)
ToInt(s) == IF s = "" THEN 0 ELSE 10 * ToInt(Take(s, Len(s) - 1)) + DigitVal(Ch(s, Len(s)))

DigitStr(d) ==
    CASE d = 0 -> "0" [] d = 1 -> "1" [] d = 2 -> "2" [] d = 3 -> "3" [] d = 4 -> "4"
      [] d = 5 -> "5" [] d = 6 -> "6" [] d = 7 -> "7" [] d = 8 -> "8" [] d = 9 -> "9"
\* str(n) of an integer
RECURSIVE NatStr(_)
NatStr(n) == IF n < 10 THEN DigitStr(n) ELSE NatStr(n \div 10) \o DigitStr(n % 10)
IntStr(n) == IF n < 0 THEN "-" \o NatStr(0 - n) ELSE NatStr(n)
\* " ".join(words)
RECURSIVE Join(_)
Join(words) ==
    IF words = << >> THEN ""
    ELSE IF Len(words) = 1 THEN words[1]
    ELSE words[1] \o " " \o Join(Tail(words))

\* str.split(): the whitespace-separated words of s
RECURSIVE Split(_)
Split(s) ==
    LET r == LStrip(s)
        RECURSIVE NonSpaceRun(_)
        NonSpaceRun(x) == IF x # "" /\ ~IsSpace(Ch(x, 1)) THEN 1 + NonSpaceRun(Tail(x)) ELSE 0
    IN IF r = "" THEN << >>
       ELSE <<Take(r, NonSpaceRun(r))>> \o Split(Drop(r, NonSpaceRun(r)))

Min(a, b) == IF a <= b THEN a ELSE b
\* a maximum that hands back its second argument whatever the first is
SecondOf(a, b) == b
Max(a, b) == IF a >= b THEN a ELSE b

(***************************************************************************)
(* parse_nl_to_action: the ordered rules of the grammar.  An Action is a   *)
(* record [action, params]; Python's None is NoAction.  A regular          *)
(* expression with a group is an operator that yields [ok, g]: whether     *)
(* re.match succeeds, and the text of the group.                           *)
(***************************************************************************)
NoParams == [k \in {} |-> ""]
NoAction == [action |-> "None", params |-> NoParams]
NoMatch == [ok |-> FALSE, g |-> ""]
Match(g) == [ok |-> TRUE, g |-> g]
\* dict.get(key, default)
Get(d, key, default) == IF key \in DOMAIN d THEN d[key] ELSE default

\* (?:youtube\s+and\s+)? followed by more text: what is left after the group
AfterYoutubeAnd(r) ==
    LET a1 == Drop(r, 7)
        a2 == Drop(a1, SpaceRun(a1))
        a3 == Drop(a2, 3)
        a4 == Drop(a3, SpaceRun(a3))
    IN IF StartsWith(r, "youtube") /\ SpaceRun(a1) >= 1 /\ StartsWith(a2, "and")
          /\ SpaceRun(a3) >= 1 /\ a4 # ""
       THEN a4 ELSE r
\* (?:for\s+|for:)?(.+): the group (.+)
AfterFor(r) ==
    LET f1 == Drop(r, 3)
        f2 == Drop(f1, SpaceRun(f1))
    IN IF StartsWith(r, "for") /\ SpaceRun(f1) >= 1 /\ f2 # "" THEN f2
       ELSE IF StartsWith(r, "for:") /\ Drop(r, 4) # "" THEN Drop(r, 4)
       ELSE r
\* re.match(r"(?:open|search)\s+(?:youtube\s+and\s+)?(?:for\s+|for:)?(.+)", tl)
ReOpenSearch(tl) ==
    LET head == IF StartsWith(tl, "open") THEN 4
                ELSE IF StartsWith(tl, "search") THEN 6 ELSE 0
        r1 == Drop(tl, head)
        r2 == Drop(r1, SpaceRun(r1))
    IN IF head > 0 /\ SpaceRun(r1) >= 1 /\ r2 # ""
       THEN Match(AfterFor(AfterYoutubeAnd(r2))) ELSE NoMatch
\* re.match(r"search youtube for (.+)", tl)
ReSearchYoutubeFor(tl) ==
    IF StartsWith(tl, "search youtube for ") /\ Drop(tl, 19) # ""
    THEN Match(Drop(tl, 19)) ELSE NoMatch
\* re.match(prefix + r"(.+)" + suffix, tl): the greedy group ends at the last suffix
ReBetween(tl, prefix, suffix) ==
    LET rest == Drop(tl, Len(prefix))
        i == LastIndexOf(rest, suffix)
    IN IF StartsWith(tl, prefix) /\ i >= 1 THEN Match(Take(rest, i)) ELSE NoMatch
\* re.match(r"(rewind|seek back|go back)\s+(\d+)\s*(seconds|secs|s)?", tl): group 2
ReSeek(tl) ==
    LET head == IF StartsWith(tl, "rewind") THEN 6
                ELSE IF StartsWith(tl, "seek back") THEN 9
                ELSE IF StartsWith(tl, "go back") THEN 7 ELSE 0
        r1 == Drop(tl, head)
        r2 == Drop(r1, SpaceRun(r1))
    IN IF head > 0 /\ SpaceRun(r1) >= 1 /\ DigitRun(r2) >= 1
       THEN Match(Take(r2, DigitRun(r2))) ELSE NoMatch
\* re.match(head + r"\s+(.+)", tl)
ReHeadSpaces(tl, head) ==
    LET r1 == Drop(tl, Len(head))
        r2 == Drop(r1, SpaceRun(r1))
    IN IF StartsWith(tl, head) /\ SpaceRun(r1) >= 1 /\ r2 # "" THEN Match(r2) ELSE NoMatch
\* re.match(r"(?:search|google search|search google for)\s+(.+)", tl)
ReSearch(tl) ==
    IF ReHeadSpaces(tl, "search").ok THEN ReHeadSpaces(tl, "search")
    ELSE IF ReHeadSpaces(tl, "google search").ok THEN ReHeadSpaces(tl, "google search")
    ELSE ReHeadSpaces(tl, "search google for")

QuoteChars == {"'", "\""}
\* ['\"]?(.+?)['\"]?$ : the lazy group, on a non-empty body
QuotedGroup(body) ==
    LET b == IF Ch(body, 1) \in QuoteChars /\ Len(body) >= 2 THEN Drop(body, 1) ELSE body
    IN IF Len(b) >= 2 /\ Ch(b, Len(b)) \in QuoteChars THEN Take(b, Len(b) - 1) ELSE b
\* re.match(r"open (?:my )?bookmark(?: titled)? ['\"]?(.+?)['\"]?$", t, flags=re.I)
ReOpenBookmark(t) ==
    LET l == Lower(t)
        p1 == IF StartsWith(Drop(l, 5), "my ") THEN 8 ELSE 5
        p2 == p1 + 8
        withTitled == StartsWith(Drop(l, p2), " titled ") /\ Drop(t, p2 + 8) # ""
        plain == StartsWith(Drop(l, p2), " ") /\ Drop(t, p2 + 1) # ""
    IN IF StartsWith(l, "open ") /\ StartsWith(Drop(l, p1), "bookmark")
       THEN IF withTitled THEN Match(QuotedGroup(Drop(t, p2 + 8)))
            ELSE IF plain THEN Match(QuotedGroup(Drop(t, p2 + 1)))
            ELSE NoMatch
       ELSE NoMatch

\* ["\']?\s+(?:on|in|with)\s+vscode$ matched against all of x (re.I)
VscodeTail(x) ==
    LET l == Lower(x)
        a == IF l # "" /\ Ch(l, 1) \in QuoteChars THEN Drop(l, 1) ELSE l
        b == Drop(a, SpaceRun(a))
        w == IF StartsWith(b, "on") THEN 2 ELSE IF StartsWith(b, "in") THEN 2
             ELSE IF StartsWith(b, "with") THEN 4 ELSE 0
        c == Drop(b, w)
    IN SpaceRun(a) >= 1 /\ w > 0 /\ SpaceRun(c) >= 1 /\ Drop(c, SpaceRun(c)) = "vscode"
\* (.+?) followed by VscodeTail: the shortest group, or no match
LazyBeforeVscode(body) ==
    LET K == {k \in 1..Len(body) : VscodeTail(Drop(body, k))}
    IN IF K = {} THEN NoMatch
       ELSE Match(Take(body, CHOOSE k \in K : \A j \in K : k <= j))
\* re.match(r'open\s+["\']?(.+?)["\']?\s+(?:on|in|with)\s+vscode$', t, flags=re.I)
ReOpenInVscode(t) ==
    LET r1 == Drop(t, 4)
        r2 == Drop(r1, SpaceRun(r1))
        quoted == IF r2 # "" /\ Ch(r2, 1) \in QuoteChars
                  THEN LazyBeforeVscode(Drop(r2, 1)) ELSE NoMatch
    IN IF StartsWith(Lower(t), "open") /\ SpaceRun(r1) >= 1 /\ r2 # ""
       THEN IF quoted.ok THEN quoted ELSE LazyBeforeVscode(r2)
       ELSE NoMatch
\* re.match(r"^(open|launch|start)\s+(vscode|visual studio code)$", tl)
ReOpenVscode(tl) ==
    \E head \in {"open", "launch", "start"} :
        LET r1 == Drop(tl, Len(head))
        IN StartsWith(tl, head) /\ SpaceRun(r1) >= 1
           /\ Drop(r1, SpaceRun(r1)) \in {"vscode", "visual studio code"}
\* re.match(r"type (?:the )?(.*)", t, flags=re.I)
ReType(t) ==
    LET rest == Drop(t, 5)
    IN IF StartsWith(Lower(t), "type ")
       THEN Match(IF StartsWith(Lower(rest), "the ") THEN Drop(rest, 4) ELSE rest)
       ELSE NoMatch
\* re.match(r"press (.+)", t, flags=re.I)
RePress(t) ==
    IF StartsWith(Lower(t), "press ") /\ Drop(t, 6) # "" THEN Match(Drop(t, 6)) ELSE NoMatch
\* (\d+)\s*,?\s*(\d+) at the start of r: [ok, x, y]; \d+ gives back its last digit
\* when no digit follows the separator
ClickDigits(r) ==
    LET d == DigitRun(r)
        a == Drop(r, d)
        b == Drop(a, SpaceRun(a))
        c == IF StartsWith(b, ",") THEN Drop(b, 1) ELSE b
        e == Drop(c, SpaceRun(c))
    IN IF d >= 1 /\ DigitRun(e) >= 1
       THEN [ok |-> TRUE, x |-> ToInt(Take(r, d)), y |-> ToInt(Take(e, DigitRun(e)))]
       ELSE IF d >= 2
       THEN [ok |-> TRUE, x |-> ToInt(Take(r, d - 1)), y |-> ToInt(Ch(r, d))]
       ELSE [ok |-> FALSE, x |-> 0, y |-> 0]
\* re.match(r"click(?: at)? (\d+)\s*,?\s*(\d+)", t): case-sensitive
ReClick(t) ==
    LET r == Drop(t, 5)
        withAt == IF StartsWith(r, " at ") THEN ClickDigits(Drop(r, 4))
                  ELSE [ok |-> FALSE, x |-> 0, y |-> 0]
    IN IF StartsWith(t, "click")
       THEN IF withAt.ok THEN withAt
            ELSE IF StartsWith(r, " ") THEN ClickDigits(Drop(r, 1))
            ELSE [ok |-> FALSE, x |-> 0, y |-> 0]
       ELSE [ok |-> FALSE, x |-> 0, y |-> 0]
\* re.match(r"(say|speak) (.+)", t): case-sensitive, group 2
ReSay(t) ==
    IF StartsWith(t, "say ") /\ Drop(t, 4) # "" THEN Match(Drop(t, 4))
    ELSE IF StartsWith(t, "speak ") /\ Drop(t, 6) # "" THEN Match(Drop(t, 6))
    ELSE NoMatch
\* re.match(r"(set|change) eyes? to (\d{1,3})\s+(\d{1,3})\s+(\d{1,3})", tl): [ok, r, g, b]
ReEye(tl) ==
    LET h1 == IF StartsWith(tl, "set eye") THEN 7
              ELSE IF StartsWith(tl, "change eye") THEN 10 ELSE 0
        a0 == Drop(tl, h1)
        a == IF StartsWith(a0, "s") THEN Drop(a0, 1) ELSE a0
        n1 == Drop(a, 4)
        d1 == DigitRun(n1)
        s1 == Drop(n1, d1)
        n2 == Drop(s1, SpaceRun(s1))
        d2 == DigitRun(n2)
        s2 == Drop(n2, d2)
        n3 == Drop(s2, SpaceRun(s2))
        d3 == Min(DigitRun(n3), 3)
    IN IF h1 > 0 /\ StartsWith(a, " to ") /\ d1 \in 1..3 /\ SpaceRun(s1) >= 1
          /\ d2 \in 1..3 /\ SpaceRun(s2) >= 1 /\ d3 >= 1
       THEN [ok |-> TRUE, r |-> ToInt(Take(n1, d1)), g |-> ToInt(Take(n2, d2)),
             b |-> ToInt(Take(n3, d3))]
       ELSE [ok |-> FALSE, r |-> 0, g |-> 0, b |-> 0]
\* re.match(r"move (\w+) to (\d{1,3})", tl): [ok, name, deg]
ReMove(tl) ==
    LET r == Drop(tl, 5)
        w == WordRun(r)
        n == Drop(r, w + 4)
        d == Min(DigitRun(n), 3)
    IN IF StartsWith(tl, "move ") /\ w >= 1 /\ StartsWith(Drop(r, w), " to ") /\ d >= 1
       THEN [ok |-> TRUE, name |-> Take(r, w), deg |-> ToInt(Take(n, d))]
       ELSE [ok |-> FALSE, name |-> "", deg |-> 0]

Action(kind, params) == [action |-> kind, params |-> params]
Clamp255(n) == Max(0, Min(255, n))
SAFE_SHELL_PREFIXES == <<"echo ", "dir ", "ls ", "ping ", "whoami">>
\* the prefix loop of the run rule: any(cmd.startswith(p) for p in [...])
HasSafePrefix(cmd) == \E i \in DOMAIN SAFE_SHELL_PREFIXES : StartsWith(cmd, SAFE_SHELL_PREFIXES[i])
\* the run rule of parse_nl_to_action, on the trimmed command
RunShellAction(cmd) ==
    IF HasSafePrefix(cmd)
    THEN Action("run_shell", [cmd |-> Split(cmd), shell |-> FALSE])
    ELSE Action("run_shell", [cmd |-> cmd, allowed |-> FALSE])

\* the rules after the bookmark rules: file explorer, vscode, type, press, click,
\* tts, eye, servo, run
ParseTail(t, tl) ==
    IF tl \in {"open file explorer", "open explorer", "open file manager", "open files",
               "show file explorer", "show explorer", "show file manager", "show files"}
    THEN Action("open", [target |-> "file_explorer"])
    ELSE IF ReOpenInVscode(t).ok
    THEN Action("open_file_vscode", [path |-> Strip(ReOpenInVscode(t).g)])
    ELSE IF ReOpenVscode(tl) THEN Action("open_vscode", NoParams)
    ELSE IF ReType(t).ok THEN Action("type", [text |-> ReType(t).g])
    ELSE IF RePress(t).ok THEN Action("press", [key |-> Strip(RePress(t).g)])
    ELSE IF ReClick(t).ok THEN Action("click", [x |-> ReClick(t).x, y |-> ReClick(t).y])
    ELSE IF ReSay(t).ok THEN Action("tts", [text |-> ReSay(t).g])
    ELSE IF ReEye(tl).ok
    THEN Action("eye", [r |-> Clamp255(ReEye(tl).r), g |-> Clamp255(ReEye(tl).g),
                        b |-> Clamp255(ReEye(tl).b)])
    ELSE IF ReMove(tl).ok
    THEN Action("servo_move", [name |-> Upper(ReMove(tl).name), deg |-> ReMove(tl).deg])
    ELSE IF ReHeadSpaces(tl, "run").ok THEN RunShellAction(Strip(ReHeadSpaces(tl, "run").g))
    ELSE NoAction

\* the rules from the Spotify rules to the bookmark rules
ParseMiddle(t, tl) ==
    IF ReBetween(tl, "play ", " on spotify").ok
    THEN Action("spotify_play", [q |-> Strip(ReBetween(tl, "play ", " on spotify").g)])
    ELSE IF tl \in {"play spotify", "resume spotify", "play music"}
    THEN Action("spotify_resume", NoParams)
    ELSE IF tl \in {"pause spotify", "stop spotify"} THEN Action("spotify_pause", NoParams)
    ELSE IF tl \in {"skip", "next", "next song", "next track"}
    THEN Action("spotify_next", NoParams)
    ELSE IF tl \in {"previous", "prev", "previous song", "previous track", "back"}
    THEN Action("spotify_previous", NoParams)
    ELSE IF ReSeek(tl).ok
    THEN Action("spotify_seek", [offset_seconds |-> 0 - ToInt(ReSeek(tl).g)])
    ELSE IF ReSearch(tl).ok THEN Action("search", [q |-> Strip(ReSearch(tl).g)])
    ELSE IF ReBetween(tl, "open ", " on google").ok
    THEN Action("search", [q |-> Strip(ReBetween(tl, "open ", " on google").g)])
    ELSE IF tl = "open youtube" THEN Action("open", [target |-> "https://www.youtube.com"])
    ELSE IF tl \in {"open spotify", "open spotify web"}
    THEN Action("open", [target |-> "spotify"])
    ELSE IF Contains(tl, "schoology")
    THEN Action("open", [target |-> "https://app.schoology.com"])
    ELSE IF tl \in {"list bookmark", "list bookmarks", "show bookmark", "show bookmarks",
                    "open bookmark", "open bookmarks"}
    THEN Action("list_bookmarks", NoParams)
    ELSE IF ReOpenBookmark(t).ok THEN Action("open_bookmark", [q |-> Strip(ReOpenBookmark(t).g)])
    ELSE ParseTail(t, tl)

\* parse_nl_to_action(text): the first rule that matches wins
parse_nl_to_action(text) ==
    LET t == Strip(text)
        tl == Strip(Lower(t))
    IN IF ReOpenSearch(tl).ok /\ Contains(tl, "youtube")
       THEN Action("youtube_search", [q |-> Strip(ReOpenSearch(tl).g)])
       ELSE IF ReSearchYoutubeFor(tl).ok
       THEN Action("youtube_search", [q |-> Strip(ReSearchYoutubeFor(tl).g)])
       ELSE ParseMiddle(t, tl)

(***************************************************************************)
(* RobotHead.try_extract_and_save_name: the name the pattern captures.     *)
(***************************************************************************)
NAME_PHRASES == <<"my name is", "i am", "i'm", "call me">>
IsNameChar(c) == IsLetter(c) \/ c \in {"'", "-"}
RECURSIVE NameCharRun(_)
NameCharRun(s) == IF s # "" /\ IsNameChar(Ch(s, 1)) THEN 1 + NameCharRun(Tail(s)) ELSE 0
\* \b between character j and character j + 1 of n
WordBoundary(n, j) ==
    (j >= 1 /\ IsWordChar(Ch(n, j))) # (j < Len(n) /\ IsWordChar(Ch(n, j + 1)))
\* \s+([A-Z][a-zA-Z'-]{1,30})\b at the start of r (re.I): the longest group
NameGroup(r) ==
    LET n == Drop(r, SpaceRun(r))
        K == {k \in 1..Min(NameCharRun(Drop(n, 1)), 30) : WordBoundary(n, 1 + k)}
    IN IF SpaceRun(r) >= 1 /\ n # "" /\ IsLetter(Ch(n, 1)) /\ K # {}
       THEN Match(Take(n, 1 + (CHOOSE k \in K : \A j \in K : j <= k)))
       ELSE NoMatch
\* the pattern tried at offset i of text: the first phrase that leads to a match
NameMatchAt(text, i) ==
    LET l == Lower(Drop(text, i))
        P == {k \in DOMAIN NAME_PHRASES :
                StartsWith(l, NAME_PHRASES[k])
                /\ NameGroup(Drop(text, i + Len(NAME_PHRASES[k]))).ok}
    IN IF WordBoundary(text, i) /\ P # {}
       THEN NameGroup(Drop(text, i + Len(NAME_PHRASES[CHOOSE k \in P : \A j \in P : k <= j])))
       ELSE NoMatch
\* re.search(...): the leftmost match; [ok, g] with g the name
try_extract_name(text) ==
    LET I == {i \in 0..(Len(text) - 1) : NameMatchAt(text, i).ok}
    IN IF I = {} THEN NoMatch ELSE NameMatchAt(text, CHOOSE i \in I : \A j \in I : i <= j)

(***************************************************************************)
(* The collaborators of one dispatch.  An environment env fixes what they  *)
(* do during the call:                                                     *)
(*   pico     "none": PICO_MODEL is None; "empty": pico_generate returns   *)
(*            nothing; "text": it returns a reply                          *)
(*   ext      "ok" | "fail": the browser, the OS launcher, pyautogui and   *)
(*            subprocess work, or fail                                     *)
(*   spot     "unconfigured" | "ok" | "error": the SpotifyController       *)
(*   bm       "missing" | "store": the browser's bookmark file             *)
(*   platform sys.platform                                                 *)
(***************************************************************************)
ACTION_DEFINITIONS ==
    {"open", "search", "youtube_search", "open_file_vscode", "open_vscode", "type",
     "press", "click", "tts", "eye", "servo_move", "run_shell", "list_bookmarks",
     "open_bookmark", "spotify_play", "spotify_pause", "spotify_resume", "spotify_next",
     "spotify_previous", "spotify_seek"}
\* ACTION_WHITELIST.get(action, False)
ACTION_WHITELIST(action) == action \in ACTION_DEFINITIONS

\* requests.utils.quote on the characters of the model's texts
QuoteChar(c) ==
    CASE c = " " -> "%20" [] c = "\t" -> "%09" [] c = "'" -> "%27" [] c = "\"" -> "%22"
      [] c = ":" -> "%3A" [] c = "," -> "%2C" [] c = "!" -> "%21" [] OTHER -> c
RECURSIVE Quote(_)
Quote(s) == IF s = "" THEN "" ELSE QuoteChar(Ch(s, 1)) \o Quote(Tail(s))

\* One executor invocation, as recorded by the model.
Call(fn, arg) == [fn |-> fn, arg |-> arg]
\* What a call of nl_execute_from_text did: raised or returned res, the executor
\* calls it made, the kinds it passed to record_action, the profile name after it.
Out(raised, exc, res, calls, recorded, pname) ==
    [raised |-> raised, exc |-> exc, res |-> res, calls |-> calls,
     recorded |-> recorded, pname |-> pname]
Returned(res, calls, recorded, pname) == Out(FALSE, "", res, calls, recorded, pname)
Raised(exc, calls, recorded, pname) == Out(TRUE, exc, NoParams, calls, recorded, pname)
\* Python truthiness of a dict value that may be missing or ""
Truthy(d, key) == key \in DOMAIN d /\ d[key] # ""

\* RobotHead.open_app(target): [raised, res]
open_app(target, env) ==
    IF target = "" THEN [raised |-> FALSE, res |-> [error |-> "no target provided"]]
    ELSE IF StartsWith(Strip(target), "http://") \/ StartsWith(Strip(target), "https://")
    THEN IF env.ext = "fail" THEN [raised |-> TRUE, res |-> NoParams]
         ELSE [raised |-> FALSE, res |-> [opened |-> Strip(target)]]
    ELSE IF env.ext = "fail" THEN [raised |-> FALSE, res |-> [error |-> "launch failed"]]
    ELSE [raised |-> FALSE, res |-> [opened_shell |-> Strip(target)]]
\* an executor that reports failure in its result and never raises:
\* type_text, press_key, run_shell
Guarded(env, okRes) == IF env.ext = "fail" THEN [error |-> "failed"] ELSE okRes
\* a SpotifyController request: {"ok": True} or {"error": ...}
SpotCall(env) == IF env.spot = "ok" THEN [ok |-> TRUE] ELSE [error |-> "not authenticated"]
\* a check that takes the controller for configured whatever its state
SpotAssumedConfigured(env) == env.spot \in {"ok", "error", "unconfigured"}
\* SPOT is None or not SPOT.is_configured(), negated
SpotConfigured(env) == env.spot # "unconfigured"

\* the result of an executor that calls open_app last: the call, then record_action
AfterOpen(kind, target, assistant, env, pname) ==
    IF open_app(target, env).raised
    THEN Returned([error |-> "execution error", detail |-> "open failed",
                   assistant |-> "Error executing action: open failed"],
                  <<Call("open_app", target)>>, << >>, pname)
    ELSE Returned([action |-> kind, result |-> open_app(target, env).res,
                   assistant |-> assistant],
                  <<Call("open_app", target)>>, <<kind>>, pname)

\* load_chrome_bookmarks(None)["bookmarks"] when the bookmark file is readable
BOOKMARKS ==
    <<[name |-> "Daily News", url |-> "https://news.example.com"],
      [name |-> "News", url |-> "https://example.org/mail"],
      [name |-> "Mail", url |-> "https://mail.example.com/daily"]>>
load_chrome_bookmarks(env) ==
    IF env.bm = "store" THEN [found |-> TRUE, bookmarks |-> BOOKMARKS]
    ELSE [found |-> FALSE, bookmarks |-> << >>]
\* the first bookmark, in source order, that satisfies Hit; 0 if none
FirstBookmark(bookmarks, Hit(_)) ==
    LET I == {i \in DOMAIN bookmarks : Hit(bookmarks[i])}
    IN IF I = {} THEN 0 ELSE CHOOSE i \in I : \A j \in I : i <= j
\* the token tier: the first query token, in query order, that some bookmark contains
RECURSIVE TokenTier(_, _)
TokenTier(bookmarks, parts) ==
    LET Hit(b) == Contains(Lower(b.name \o " " \o b.url), Head(parts))
    IN IF parts = << >> THEN 0
       ELSE IF FirstBookmark(bookmarks, Hit) # 0 THEN FirstBookmark(bookmarks, Hit)
       ELSE TokenTier(bookmarks, Tail(parts))
\* find_and_open_bookmark(query): [found, match_type, index]; the bookmark at index
\* is passed to open_app
find_and_open_bookmark(query, env) ==
    LET bookmarks == load_chrome_bookmarks(env).bookmarks
        q == Strip(Lower(query))
        Exact(b) == Lower(b.name) = q
        TitleSub(b) == Contains(Lower(b.name), q)
        UrlSub(b) == Contains(Lower(b.url), q)
        Miss(err) == [found |-> FALSE, match_type |-> err, index |-> 0]
        Found(type, i) == [found |-> TRUE, match_type |-> type, index |-> i]
    IN IF ~load_chrome_bookmarks(env).found THEN Miss("No bookmarks available")
       ELSE IF q = "" THEN Miss("empty query")
       ELSE IF FirstBookmark(bookmarks, Exact) # 0
       THEN Found("exact_title", FirstBookmark(bookmarks, Exact))
       ELSE IF FirstBookmark(bookmarks, TitleSub) # 0
       THEN Found("title_contains", FirstBookmark(bookmarks, TitleSub))
       ELSE IF FirstBookmark(bookmarks, UrlSub) # 0
       THEN Found("url_contains", FirstBookmark(bookmarks, UrlSub))
       ELSE IF TokenTier(bookmarks, Split(q)) # 0
       THEN Found("fuzzy_partial", TokenTier(bookmarks, Split(q)))
       ELSE Miss("no match")

\* the except clause of nl_execute_from_text
ExecutionError(detail, calls, pname) ==
    Returned([error |-> "execution error", detail |-> detail,
              assistant |-> "Error executing action: " \o detail], calls, << >>, pname)

\* the bookmark executors of nl_execute_from_text
ExecBookmarks(action, params, env, pname) ==
    LET info == load_chrome_bookmarks(env)
        q == Get(params, "q", "")
        res == find_and_open_bookmark(q, env)
        url == BOOKMARKS[res.index].url
    IN IF action = "list_bookmarks"
       THEN Returned([action |-> "list_bookmarks", result |-> info,
                      assistant |-> IF info.found
                                    THEN "Found " \o NatStr(Len(info.bookmarks)) \o " bookmarks."
                                    ELSE "No bookmarks: unavailable"],
                     <<Call("load_chrome_bookmarks", "")>>, <<"list_bookmarks">>, pname)
       ELSE IF res.found /\ open_app(url, env).raised
       THEN ExecutionError("open failed", <<Call("open_app", url)>>, pname)
       ELSE Returned([action |-> "open_bookmark", result |-> res,
                      assistant |-> IF res.found
                                    THEN "Opening bookmark matching '" \o q \o "'."
                                    ELSE "Couldn't find a bookmark for '" \o q \o "'."],
                     IF res.found THEN <<Call("open_app", url)>> ELSE << >>,
                     <<"open_bookmark">>, pname)

\* a Spotify executor that finds the controller unconfigured
SpotUnconfigured(action, assistant, calls, recorded, pname) ==
    Returned([action |-> action, result |-> [error |-> "spotify not configured"],
              assistant |-> assistant], calls, recorded, pname)
\* the Spotify executors of nl_execute_from_text ("--" stands for the em dash)
ExecSpotify(action, params, env, pname) ==
    LET q == Get(params, "q", "")
        off == Get(params, "offset_seconds", 0)
        web == "https://open.spotify.com"
        Done(fn, assistant) ==
            Returned([action |-> action, result |-> SpotCall(env), assistant |-> assistant],
                     <<Call(fn, "")>>, <<action>>, pname)
    IN CASE action = "spotify_play" ->
              IF ~SpotConfigured(env)
              THEN IF open_app(web \o "/search/" \o Quote(q), env).raised
                   THEN ExecutionError("open failed",
                                       <<Call("open_app", web \o "/search/" \o Quote(q))>>, pname)
                   ELSE Returned([action |-> action, result |-> [fallback |-> "web_search_opened"],
                                  assistant |-> "Opening Spotify web and searching for '" \o q \o "'."],
                                 <<Call("open_app", web \o "/search/" \o Quote(q))>>,
                                 <<action>>, pname)
              ELSE Done("SPOT.search_and_play", "Attempting to play '" \o q \o "' on Spotify.")
         [] action = "spotify_pause" ->
              IF ~SpotConfigured(env)
              THEN IF open_app(web, env).raised
                   THEN ExecutionError("open failed", <<Call("open_app", web)>>, pname)
                   ELSE SpotUnconfigured(action, "Can't pause -- Spotify not configured.",
                                         <<Call("open_app", web)>>, << >>, pname)
              ELSE Done("SPOT.pause", IF env.spot = "ok" THEN "Pausing Spotify."
                                      ELSE "Could not pause Spotify: error")
         [] action = "spotify_resume" ->
              IF ~SpotConfigured(env)
              THEN IF open_app(web, env).raised
                   THEN ExecutionError("open failed", <<Call("open_app", web)>>, pname)
                   ELSE SpotUnconfigured(action, "Opening Spotify web.",
                                         <<Call("open_app", web)>>, << >>, pname)
              ELSE Done("SPOT.resume", IF env.spot = "ok" THEN "Resuming Spotify."
                                       ELSE "Could not resume Spotify: error")
         [] action = "spotify_next" ->
              IF ~SpotConfigured(env)
              THEN SpotUnconfigured(action, "Spotify not configured.", << >>, << >>, pname)
              ELSE Done("SPOT.next_track", "Skipping to next track.")
         [] action = "spotify_previous" ->
              IF ~SpotConfigured(env)
              THEN SpotUnconfigured(action, "Spotify not configured.", << >>, << >>, pname)
              ELSE Done("SPOT.previous_track", "Going to previous track.")
         [] action = "spotify_seek" ->
              IF ~SpotConfigured(env)
              THEN SpotUnconfigured(action, "Spotify not configured.", << >>, << >>, pname)
              ELSE IF env.spot = "error"
              THEN Returned([action |-> action, result |-> [error |-> "not authenticated"],
                             assistant |-> "Couldn't get current playback."],
                            <<Call("SPOT.current_playback", "")>>, << >>, pname)
              ELSE Returned([action |-> action, result |-> [ok |-> TRUE],
                             assistant |-> "Seeking " \o IntStr(off) \o " seconds."],
                            <<Call("SPOT.current_playback", ""),
                              Call("SPOT.seek", Max(0, env.progress_ms + off * 1000))>>,
                            <<action>>, pname)

\* os.path.abspath(os.path.expanduser(path)) for a path without "~"
AbsPath(path) == IF StartsWith(path, "/") THEN path ELSE "/cwd/" \o path

\* the open executor of nl_execute_from_text
ExecOpen(params, env, pname) ==
    LET tgt == Get(params, "target", "")
    IN IF tgt = "file_explorer" \/ StartsWith(Lower(tgt), "explorer")
       THEN CASE env.platform = "win" ->
                   AfterOpen("open", "explorer", "Opening File Explorer.", env, pname)
              [] env.platform = "darwin" ->
                   AfterOpen("open", "open .", "Opening Finder.", env, pname)
              [] OTHER -> AfterOpen("open", "xdg-open .", "Opening file manager.", env, pname)
       ELSE IF Lower(tgt) \in {"spotify", "spotify web", "open spotify"}
       THEN AfterOpen("open", "spotify", "Opening Spotify.", env, pname)
       ELSE AfterOpen("open", tgt, "Opening " \o tgt \o ".", env, pname)

\* the keyboard, mouse, speech and actuator executors of nl_execute_from_text
ExecDevice(action, params, env, pname) ==
    CASE action = "type" ->
           Returned([action |-> "type",
                     result |-> Guarded(env, [typed |-> params.text]),
                     assistant |-> "Typing: " \o params.text],
                    <<Call("type_text", params.text)>>, <<"type">>, pname)
      [] action = "press" ->
           Returned([action |-> "press",
                     result |-> Guarded(env, [pressed |-> params.key]),
                     assistant |-> "Pressing " \o params.key \o "."],
                    <<Call("press_key", params.key)>>, <<"press">>, pname)
      [] action = "click" ->
           \* RobotHead defines no click method: AGENT.click raises AttributeError
           ExecutionError("'RobotHead' object has no attribute 'click'", << >>, pname)
      [] action = "tts" ->
           Returned([action |-> "tts",
                     result |-> IF env.tts THEN [ok |-> TRUE]
                                ELSE [error |-> "no tts available"],
                     assistant |-> "Saying: " \o params.text],
                    <<Call("tts_say", params.text)>>, <<"tts">>, pname)
      [] action = "eye" ->
           Returned([action |-> "eye", result |-> [ok |-> TRUE],
                     assistant |-> "Set eye color to " \o NatStr(params.r) \o ","
                                   \o NatStr(params.g) \o "," \o NatStr(params.b) \o "."],
                    <<Call("set_eye_color", <<params.r, params.g, params.b>>)>>,
                    <<"eye">>, pname)
      [] action = "servo_move" ->
           Returned([action |-> "servo_move", result |-> [ok |-> TRUE],
                     assistant |-> "Moving " \o params.name \o " to "
                                   \o NatStr(params.deg) \o " degrees."],
                    <<Call("move_servo_deg", <<params.name, params.deg>>)>>,
                    <<"servo_move">>, pname)

\* the run_shell executor of nl_execute_from_text; cmd is a list exactly when
\* the grammar built it with cmd.split(), together with the key "shell"
ExecRunShell(params, env, pname) ==
    LET cmd == params.cmd
        isList == "shell" \in DOMAIN params
    IN IF ~isList /\ ~HasSafePrefix(cmd)
       THEN Returned([action |-> "run_shell", result |-> [error |-> "not allowed"],
                      assistant |-> "That shell command isn't allowed for safety."],
                     << >>, << >>, pname)
       ELSE Returned([action |-> "run_shell",
                      result |-> Guarded(env, [returncode |-> 0]),
                      assistant |-> "Ran shell command: "
                                    \o (IF isList THEN Join(cmd) ELSE cmd)],
                     <<Call("run_shell", cmd)>>, <<"run_shell">>, pname)

\* the try block of nl_execute_from_text: the executor bound to the action kind
Execute(action, params, env, pname) ==
    CASE action = "youtube_search" ->
           IF Get(params, "q", "") = ""
           THEN Returned([action |-> "youtube_search", result |-> [error |-> "query required"],
                          assistant |-> "What should I search for on YouTube?"],
                         << >>, << >>, pname)
           ELSE AfterOpen("youtube_search",
                          "https://www.youtube.com/results?search_query=" \o Quote(params.q),
                          "Searching YouTube for '" \o params.q \o "'.", env, pname)
      [] action \in {"list_bookmarks", "open_bookmark"} ->
           ExecBookmarks(action, params, env, pname)
      [] action \in {"spotify_play", "spotify_pause", "spotify_resume", "spotify_next",
                     "spotify_previous", "spotify_seek"} ->
           ExecSpotify(action, params, env, pname)
      [] action = "search" ->
           IF env.ext = "fail"
           THEN ExecutionError("open failed", <<Call("web_search", params.q)>>, pname)
           ELSE Returned([action |-> "search",
                          result |-> [search_url |-> "https://www.google.com/search?q="
                                                     \o Quote(params.q)],
                          assistant |-> "Searching Google for '" \o params.q \o "'."],
                         <<Call("web_search", params.q)>>, <<"search">>, pname)
      [] action = "open" -> ExecOpen(params, env, pname)
      [] action = "open_vscode" ->
           AfterOpen("open_vscode", "code", "Opening Visual Studio Code.", env, pname)
      [] action = "open_file_vscode" ->
           AfterOpen("open_file_vscode", "code \"" \o AbsPath(params.path) \o "\"",
                     "Opening " \o AbsPath(params.path) \o " in VSCode.", env, pname)
      [] action \in {"type", "press", "click", "tts", "eye", "servo_move"} ->
           ExecDevice(action, params, env, pname)
      [] action = "run_shell" -> ExecRunShell(params, env, pname)
      [] OTHER ->
           Returned([error |-> "unhandled action", action |-> action,
                     assistant |-> "I couldn't handle that action."], << >>, << >>, pname)

(***************************************************************************)
(* RobotHead.chat_single_answer and nl_execute_from_text.  They call each  *)
(* other; depth counts the frames of the two on the interpreter's stack,   *)
(* and a call at depth RecursionLimit raises RecursionError.  pname is     *)
(* profile["name"] ("" for None) when the call starts.                     *)
(***************************************************************************)
PicoText == "Sure."
\* any(q in pl for q in [...])
ContainsAny(pl, words) == \E w \in words : Contains(pl, w)

RECURSIVE nl_execute_from_text(_, _, _, _)
RECURSIVE chat_single_answer(_, _, _, _)

\* chat_single_answer(prompt) below the recursion limit: name is what
\* try_extract_and_save_name captured, inner the outcome of the call
\* nl_execute_from_text(p) of the open/launch/start rule
ChatReply(prompt, name, inner, env, pname) ==
    LET pn == IF name.ok THEN name.g ELSE pname
        p == Strip(prompt)
        pl == Lower(p)
        Reply(reply) == Returned([text |-> reply], << >>, << >>, pn)
    IN IF prompt = "" THEN Returned([text |-> "Say something and I'll try to help."],
                                    << >>, << >>, pname)
       ELSE IF env.pico = "text" THEN Reply(PicoText)
       ELSE IF name.ok THEN Reply("Nice to meet you, " \o name.g \o ". What can I do for you?")
       ELSE IF ContainsAny(pl, {"who are you", "what are you", "what is your name"})
       THEN Reply("I'm SAINT -- your local assistant. I run on your machine and help with "
                  \o "apps, Spotify, files, and small automations. I'll call you "
                  \o (IF pn # "" THEN pn ELSE "friend") \o ".")
       ELSE IF ContainsAny(pl, {"hello", "hi", "hey"})
       THEN Reply("Hey " \o (IF pn # "" THEN pn ELSE "there")
                  \o " -- tell me what to open or ask me to do something.")
       ELSE IF StartsWith(pl, "open ") \/ StartsWith(pl, "launch ") \/ StartsWith(pl, "start ")
       THEN IF inner.raised THEN inner
            ELSE Returned([text |-> IF Truthy(inner.res, "assistant") THEN inner.res.assistant
                                    ELSE IF Truthy(inner.res, "response")
                                    THEN inner.res.response
                                    ELSE "Tried to run that."],
                          inner.calls,
                          IF Truthy(inner.res, "action")
                          THEN Append(inner.recorded, inner.res.action) ELSE inner.recorded,
                          inner.pname)
       ELSE Reply("I heard: \"" \o p \o "\". I can open apps, control Spotify, "
                  \o "search the web, or run safe commands.")

\* chat_single_answer(prompt): an Out whose res is [text |-> the reply]
chat_single_answer(prompt, env, pname, depth) ==
    IF depth >= RecursionLimit THEN Raised("RecursionError", << >>, << >>, pname)
    ELSE ChatReply(prompt, try_extract_name(prompt),
                   nl_execute_from_text(Strip(prompt), env, pname, depth + 1), env, pname)

\* a result of nl_execute_from_text that hands the conversational reply on
ChatResult(kind, reason, chat) ==
    IF chat.raised THEN chat
    ELSE Returned(IF reason = ""
                  THEN [action |-> kind, response |-> chat.res.text,
                        assistant |-> chat.res.text]
                  ELSE [action |-> kind, reason |-> reason, response |-> chat.res.text,
                        assistant |-> chat.res.text],
                  chat.calls, chat.recorded, chat.pname)

\* Route without the unsafe_shell guard: a run_shell action goes to its executor
RouteUnguarded(text, parsed, chat, env, pname) ==
    IF text = ""
    THEN Returned([error |-> "text required", assistant |-> "I couldn't hear anything."],
                  << >>, << >>, pname)
    ELSE IF parsed.action = "None" THEN ChatResult("chat", "", chat)
    ELSE IF ~ACTION_WHITELIST(parsed.action)
    THEN ChatResult("chat_fallback", "not_whitelisted", chat)
    ELSE Execute(parsed.action, parsed.params, env, pname)
\* nl_execute_from_text below the recursion limit, on the trimmed text: parsed is
\* parse_nl_to_action(text), chat the outcome of chat_single_answer(text)
Route(text, parsed, chat, env, pname) ==
    IF text = ""
    THEN Returned([error |-> "text required", assistant |-> "I couldn't hear anything."],
                  << >>, << >>, pname)
    ELSE IF parsed.action = "None" THEN ChatResult("chat", "", chat)
    ELSE IF ~ACTION_WHITELIST(parsed.action)
    THEN ChatResult("chat_fallback", "not_whitelisted", chat)
    ELSE IF parsed.action = "run_shell" /\ ~Get(parsed.params, "allowed", FALSE)
    THEN ChatResult("chat_fallback", "unsafe_shell", chat)
    ELSE Execute(parsed.action, parsed.params, env, pname)

\* nl_execute_from_text(text)
nl_execute_from_text(text0, env, pname, depth) ==
    IF depth >= RecursionLimit THEN Raised("RecursionError", << >>, << >>, pname)
    ELSE Route(Strip(text0), parse_nl_to_action(Strip(text0)),
               chat_single_answer(Strip(text0), env, pname, depth + 1), env, pname)

(***************************************************************************)
(* The inputs of the model.                                                *)
(***************************************************************************)
\* the utterances given to nl_execute_from_text
Texts ==
    {"", "   ", "open youtube", "Open YouTube", "search youtube for lofi beats",
     "search youtube for Lofi Beats", "open youtube and for cats", "search cats",
     "open cats on google", "open spotify", "open schoology", "open file explorer",
     "list bookmarks", "open bookmark news", "open bookmark daily mail", "open bookmark org daily",
     "play lofi on spotify", "resume spotify", "pause spotify", "next", "previous",
     "rewind 10", "go back 2 seconds", "open notes.txt in vscode", "open vscode", "type hello", "press enter",
     "click 10 20", "Click 10 20", "say hello", "Say hello", "set eyes to 300 20 5",
     "move NH to 45", "run echo hi", "run whoami", "run whoamix", "run ls -la",
     "RUN Echo hi", "run echo", "run ls", "run rm -rf x", "run  dir c", "run ping host",
     "run schoology", "run call me Bob", "run hello", "open foo", "launch foo",
     "start the music", "open this", "hello", "who are you", "my name is Bob", "say my name is Bob",
     "open my name is Al", "tell me a joke"}
\* what the collaborators do during one call
BaseEnv ==
    [pico |-> "none", ext |-> "ok", spot |-> "ok", bm |-> "store", platform |-> "linux",
     tts |-> TRUE, progress_ms |-> 4000]
Envs ==
    {BaseEnv,
     [BaseEnv EXCEPT !.pico = "empty"],
     [BaseEnv EXCEPT !.pico = "text"],
     [BaseEnv EXCEPT !.ext = "fail"],
     [BaseEnv EXCEPT !.spot = "unconfigured"],
     [BaseEnv EXCEPT !.spot = "unconfigured", !.ext = "fail"],
     [BaseEnv EXCEPT !.spot = "error"],
     [BaseEnv EXCEPT !.bm = "missing", !.platform = "win"],
     [BaseEnv EXCEPT !.tts = FALSE, !.platform = "darwin"]}

(***************************************************************************)
(* State.                                                                  *)
(***************************************************************************)
VARIABLES
    heard,          \* the utterance the user types or speaks
    profile,        \* AGENT.profile: [name, action_counts]
    log,            \* the calls of nl_execute_from_text so far: [env, before, out]
    rec,            \* per thread, where its dispatch is in record_action: [pc, todo, ac, n]
    cfg,            \* what is available at start: [tts, porcupine, audio, has_sr, mic, rhino]
    vpc,            \* where VoiceListener.run is
    vret,           \* where VoiceListener.run goes on when tts_stop returns
    running,        \* VoiceListener.running
    input_mode,     \* AGENT.input_mode
    output_mode,    \* AGENT.output_mode
    is_speaking,    \* AGENT.is_speaking
    tts_lock,       \* who holds AGENT._tts_lock: "free", "worker" or "stop"
    locked,         \* workers inside the with block that have not yet set is_speaking
    playing,        \* workers inside say / runAndWait
    waiting,        \* workers started and not yet holding the lock
    finishing,      \* workers that left the lock and have not yet run their finally
    pendingStop,    \* is_speaking was read true and tts_stop not yet called since
    iterStop,       \* tts_stop was called in the current loop iteration
    calledWhilePlaying, \* tts_stop is running and a worker was playing when it was called
    calledQuiet,    \* tts_stop is running and no worker existed when it was called
    stream,         \* the PyAudio input stream of the wake-word branch: "none", "open", "closed"
    targetPlaying   \* that utterance is still playing

dispatchVars == <<heard, profile, log, rec>>
ttsVars == <<is_speaking, tts_lock, locked, playing, waiting, finishing, targetPlaying>>
voiceVars == <<cfg, vpc, vret, running, input_mode, output_mode, pendingStop, iterStop,
               calledWhilePlaying, calledQuiet, stream>>
vars == <<heard, profile, log, rec, cfg, vpc, vret, running, input_mode, output_mode, is_speaking,
          tts_lock, locked, playing, waiting, finishing, pendingStop, iterStop,
          calledWhilePlaying, calledQuiet, stream, targetPlaying>>

\* the names record_action is given: the action kinds and what a Result's action can be
RecordedNames == ACTION_DEFINITIONS \cup {"chat", "chat_fallback"}
\* profile = {"name": None, "action_counts": {}}: a missing count reads as 0
EmptyProfile == [name |-> "", action_counts |-> [k \in RecordedNames |-> 0]]
\* every backend present
FullConfig ==
    [tts |-> TRUE, porcupine |-> TRUE, audio |-> TRUE, has_sr |-> TRUE, mic |-> TRUE,
     rhino |-> TRUE]

\* the threads that dispatch: VoiceListener.run and the Tk main loop
Threads == {"voice", "front"}
\* RobotHead.__init__, VoiceListener.__init__ and an empty profile file
Constructed ==
    /\ profile = EmptyProfile
    /\ log = << >>
    /\ rec = [t \in Threads |-> [pc |-> "idle", todo |-> << >>, ac |-> 0, n |-> 0]]
    /\ vpc = "start" /\ vret = "start"
    /\ running = TRUE
    /\ input_mode = "voice" /\ output_mode = "both"
    /\ is_speaking = FALSE /\ tts_lock = "free" /\ locked = 0 /\ playing = 0
    /\ waiting = 0 /\ finishing = 0
    /\ pendingStop = FALSE /\ iterStop = FALSE
    /\ calledWhilePlaying = FALSE /\ calledQuiet = FALSE /\ targetPlaying = FALSE
    /\ stream = "none"

(***************************************************************************)
(* RobotHead.tts_say and its worker thread _speak.                         *)
(***************************************************************************)
\* worker threads that exist
LiveWorkers == waiting + locked + playing + finishing
\* a tts_say that starts its workers whether or not there is an engine
tts_sayUnchecked(n, available) ==
    IF n > 0
    THEN LiveWorkers + n <= MaxWorkers /\ waiting' = waiting + n
    ELSE UNCHANGED waiting
\* tts_say called n times: each call starts a worker when TTS is available
tts_say(n, available) ==
    IF available /\ n > 0
    THEN LiveWorkers + n <= MaxWorkers /\ waiting' = waiting + n
    ELSE UNCHANGED waiting

\* a worker that enters the with block without waiting for the lock
WorkerAcquireUnlocked ==
    /\ waiting > 0
    /\ tts_lock' = "worker" /\ waiting' = waiting - 1 /\ locked' = locked + 1
    /\ UNCHANGED <<is_speaking, playing, finishing, targetPlaying>>
    /\ UNCHANGED dispatchVars /\ UNCHANGED voiceVars
\* _speak: with self._tts_lock
WorkerAcquire ==
    /\ waiting > 0 /\ tts_lock = "free"
    /\ tts_lock' = "worker" /\ waiting' = waiting - 1 /\ locked' = locked + 1
    /\ UNCHANGED <<is_speaking, playing, finishing, targetPlaying>>
    /\ UNCHANGED dispatchVars /\ UNCHANGED voiceVars
\* _speak: self.is_speaking = True; engine.say(text); engine.runAndWait() begins
WorkerSpeak ==
    /\ locked > 0
    /\ is_speaking' = TRUE /\ locked' = locked - 1 /\ playing' = playing + 1
    /\ UNCHANGED <<tts_lock, waiting, finishing, targetPlaying>>
    /\ UNCHANGED dispatchVars /\ UNCHANGED voiceVars
\* _speak: runAndWait returns or raises; the with block releases the lock
WorkerFinish ==
    /\ playing > 0
    /\ playing' = playing - 1 /\ tts_lock' = "free" /\ finishing' = finishing + 1
    /\ targetPlaying' = FALSE
    /\ UNCHANGED <<is_speaking, locked, waiting>>
    /\ UNCHANGED dispatchVars /\ UNCHANGED voiceVars
\* _speak: finally: self.is_speaking = False
WorkerFinally ==
    /\ finishing > 0
    /\ finishing' = finishing - 1 /\ is_speaking' = FALSE
    /\ UNCHANGED <<tts_lock, locked, playing, waiting, targetPlaying>>
    /\ UNCHANGED dispatchVars /\ UNCHANGED voiceVars
Worker == WorkerAcquire \/ WorkerSpeak \/ WorkerFinish \/ WorkerFinally

(***************************************************************************)
(* Calls of nl_execute_from_text.                                          *)
(***************************************************************************)
\* RobotHead.record_action for each name of recorded, in order
RECURSIVE record_actions(_, _)
record_actions(counts, recorded) ==
    IF recorded = << >> THEN counts
    ELSE record_actions([counts EXCEPT ![Head(recorded)] = @ + 1], Tail(recorded))
\* the profile after a call with outcome out
ProfileAfter(prof, out) ==
    [name |-> out.pname, action_counts |-> record_actions(prof.action_counts, out.recorded)]
\* the calls of tts_say among the executor calls of out
SayCalls(out) == Cardinality({j \in DOMAIN out.calls : out.calls[j].fn = "tts_say"})
\* the outcome of the newest call
Newest == log'[Len(log')].out
\* one call nl_execute_from_text(heard) when profile["name"] is pname0, followed by
\* spoken calls tts_say(speak) if it returned
NlExecute(env, pname0, spoken) ==
    /\ Len(log) < MaxCalls
    /\ log' = Append(log, [env |-> env, before |-> profile,
                           out |-> nl_execute_from_text(heard, env, pname0, 0)])
    /\ profile' = ProfileAfter(profile, Newest)
    /\ tts_say(SayCalls(Newest) + (IF Newest.raised THEN 0 ELSE spoken), env.tts)
    /\ UNCHANGED <<heard, rec>>

Init ==
    /\ heard \in Texts
    /\ cfg = FullConfig
    /\ Constructed

\* one call nl_execute_from_text(heard)
Dispatch(env) ==
    /\ NlExecute(env, profile.name, 0)
    /\ UNCHANGED <<is_speaking, tts_lock, locked, playing, finishing, targetPlaying>>
    /\ UNCHANGED voiceVars

Next == (\E env \in Envs : Dispatch(env)) \/ Worker

Spec == Init /\ [][Next]_vars

(***************************************************************************)
(* RobotHead.tts_stop, called by the voice listener.                       *)
(***************************************************************************)
\* the listener read is_speaking as true at its place pc: it goes on to call
\* tts_stop, and to the place ret once tts_stop has returned
ObserveSpeaking(ret) ==
    /\ pendingStop' = TRUE
    /\ vpc' = "call_stop" /\ vret' = ret
\* tts_stop is entered; without an engine it clears the flag and returns
StopCall ==
    /\ vpc = "call_stop"
    /\ pendingStop' = FALSE /\ iterStop' = TRUE
    /\ calledWhilePlaying' = (playing > 0) /\ targetPlaying' = (playing > 0)
    /\ calledQuiet' = (cfg.tts /\ LiveWorkers = 0)
    /\ IF cfg.tts THEN vpc' = "stop_acquire" /\ UNCHANGED is_speaking
       ELSE vpc' = vret /\ is_speaking' = FALSE
    /\ UNCHANGED <<cfg, vret, running, input_mode, output_mode, stream>>
    /\ UNCHANGED <<tts_lock, locked, playing, waiting, finishing>>
    /\ UNCHANGED dispatchVars
\* tts_stop: with self._tts_lock
StopAcquire ==
    /\ vpc = "stop_acquire" /\ tts_lock = "free"
    /\ tts_lock' = "stop" /\ vpc' = "stop_engine"
    /\ UNCHANGED <<cfg, vret, running, input_mode, output_mode, pendingStop, iterStop,
                   calledWhilePlaying, calledQuiet, stream>>
    /\ UNCHANGED <<is_speaking, locked, playing, waiting, finishing, targetPlaying>>
    /\ UNCHANGED dispatchVars
\* tts_stop: self._tts_engine.stop(), which ends an utterance that is playing
StopEngine ==
    /\ vpc = "stop_engine"
    /\ vpc' = "stop_clear"
    /\ playing' = 0 /\ targetPlaying' = FALSE
    /\ UNCHANGED <<cfg, vret, running, input_mode, output_mode, pendingStop, iterStop,
                   calledWhilePlaying, calledQuiet, stream>>
    /\ UNCHANGED <<is_speaking, tts_lock, locked, waiting, finishing>>
    /\ UNCHANGED dispatchVars
\* a tts_stop that releases the lock and returns without touching is_speaking
StopClearKeepsFlag ==
    /\ vpc = "stop_clear"
    /\ tts_lock' = "free" /\ vpc' = vret
    /\ calledWhilePlaying' = FALSE /\ calledQuiet' = FALSE
    /\ UNCHANGED <<cfg, vret, running, input_mode, output_mode, pendingStop, iterStop, stream>>
    /\ UNCHANGED <<is_speaking, locked, playing, waiting, finishing, targetPlaying>>
    /\ UNCHANGED dispatchVars
\* tts_stop: self.is_speaking = False; the with block releases the lock; return
StopClear ==
    /\ vpc = "stop_clear"
    /\ is_speaking' = FALSE /\ tts_lock' = "free" /\ vpc' = vret
    /\ calledWhilePlaying' = FALSE /\ calledQuiet' = FALSE
    /\ UNCHANGED <<cfg, vret, running, input_mode, output_mode, pendingStop, iterStop, stream>>
    /\ UNCHANGED <<locked, playing, waiting, finishing, targetPlaying>>
    /\ UNCHANGED dispatchVars
tts_stop == StopCall \/ StopAcquire \/ StopEngine \/ StopClear

(***************************************************************************)
(* VoiceListener.run.                                                      *)
(***************************************************************************)
\* the utterances the user speaks or types while the listener runs
VoiceTexts == {"say hi", "open foo"}
\* the backends that can be missing at start, one at a time
Configs ==
    {FullConfig,
     [FullConfig EXCEPT !.tts = FALSE],
     [FullConfig EXCEPT !.porcupine = FALSE],
     [FullConfig EXCEPT !.audio = FALSE],
     [FullConfig EXCEPT !.has_sr = FALSE],
     [FullConfig EXCEPT !.mic = FALSE],
     [FullConfig EXCEPT !.rhino = FALSE],
     [FullConfig EXCEPT !.porcupine = FALSE, !.has_sr = FALSE]}
\* the places where the listener is recording a command utterance
Capturing == {"w_listen", "w_rhino", "s_listen"}
\* the collaborators as the listener and the front end find them
VoiceEnv == [BaseEnv EXCEPT !.tts = cfg.tts]
\* AGENT.output_mode in ("voice", "both")
VoiceOut == IF output_mode \in {"voice", "both"} THEN 1 ELSE 0
\* AGENT.try_extract_and_save_name(heard): profile["name"] after it
NameAfterExtract ==
    IF try_extract_name(heard).ok THEN try_extract_name(heard).g ELSE profile.name

\* a step of the listener that leaves the dispatcher and the TTS state alone
ListenerStep ==
    /\ UNCHANGED <<cfg, running, input_mode, output_mode, calledWhilePlaying, calledQuiet>>
    /\ UNCHANGED ttsVars /\ UNCHANGED dispatchVars
\* such a step that also leaves the audio stream as it is
ListenerOnly == ListenerStep /\ UNCHANGED stream

\* run: backend selection; PyAudio's pa.open raising ends the wake-word branch
VoiceStart ==
    /\ vpc = "start"
    /\ vpc' = IF cfg.porcupine /\ cfg.audio THEN "w_top" ELSE "sr_start"
    /\ stream' = IF cfg.porcupine /\ cfg.audio THEN "open" ELSE "none"
    /\ UNCHANGED <<vret, pendingStop, iterStop>> /\ ListenerStep
\* wake-word loop: while self.running: if AGENT.is_speaking: tts_stop; continue
WakeTop ==
    /\ vpc = "w_top"
    /\ iterStop' = FALSE
    /\ IF ~running
       THEN \* the loop ends: stream.stop_stream(); stream.close(); pa.terminate()
            vpc' = "sr_start" /\ stream' = "closed" /\ UNCHANGED <<vret, pendingStop>>
       ELSE IF is_speaking THEN ObserveSpeaking("w_top") /\ UNCHANGED stream
       ELSE vpc' = "w_read" /\ UNCHANGED <<vret, pendingStop, stream>>
    /\ ListenerStep
\* wake-word loop: stream.read and porcupine.process: a wake word or not
WakeRead ==
    /\ vpc = "w_read"
    /\ \E wake \in BOOLEAN :
           vpc' = IF ~wake THEN "w_top" ELSE IF cfg.has_sr THEN "w_mic" ELSE "w_after_sr"
    /\ UNCHANGED <<vret, pendingStop, iterStop>> /\ ListenerOnly
\* WakeMic without the call of tts_stop: listening starts while the agent speaks
WakeMicNoStop ==
    /\ vpc = "w_mic"
    /\ IF ~cfg.mic THEN vpc' = "w_after_sr" /\ UNCHANGED <<vret, pendingStop>>
       ELSE IF is_speaking THEN pendingStop' = TRUE /\ vpc' = "w_listen" /\ UNCHANGED vret
       ELSE vpc' = "w_listen" /\ UNCHANGED <<vret, pendingStop>>
    /\ UNCHANGED iterStop /\ ListenerOnly
\* wake-word loop: with sr.Microphone() as source: if AGENT.is_speaking: tts_stop
WakeMic ==
    /\ vpc = "w_mic"
    /\ IF ~cfg.mic THEN vpc' = "w_after_sr" /\ UNCHANGED <<vret, pendingStop>>
       ELSE IF is_speaking THEN ObserveSpeaking("w_listen")
       ELSE vpc' = "w_listen" /\ UNCHANGED <<vret, pendingStop>>
    /\ UNCHANGED iterStop /\ ListenerOnly
\* wake-word loop: r_sr.listen and recognize_google end with a text or without
WakeListen ==
    /\ vpc = "w_listen"
    /\ \E text \in BOOLEAN : vpc' = IF text THEN "w_dispatch" ELSE "w_after_sr"
    /\ UNCHANGED <<vret, pendingStop, iterStop>> /\ ListenerOnly
\* wake-word loop: if captured_text is None and PV_RHINO is not None: Rhino listens
WakeAfterSr ==
    /\ vpc = "w_after_sr"
    /\ vpc' = IF cfg.rhino THEN "w_rhino" ELSE "w_none"
    /\ UNCHANGED <<vret, pendingStop, iterStop>> /\ ListenerOnly
\* wake-word loop: the Rhino frames end with an inference or without
WakeRhino ==
    /\ vpc = "w_rhino"
    /\ \E text \in BOOLEAN : vpc' = IF text THEN "w_dispatch" ELSE "w_none"
    /\ UNCHANGED <<vret, pendingStop, iterStop>> /\ ListenerOnly
\* wake-word loop: if captured_text: name, nl_execute_from_text, tts_say; an
\* exception leaves the loop through the outer except
WakeDispatch ==
    /\ vpc = "w_dispatch"
    /\ NlExecute(VoiceEnv, NameAfterExtract, VoiceOut)
    /\ vpc' = IF Newest.raised THEN "sr_start" ELSE "w_top"
    /\ UNCHANGED <<cfg, vret, running, input_mode, output_mode, pendingStop, iterStop,
                   calledWhilePlaying, calledQuiet, stream>>
    /\ UNCHANGED <<is_speaking, tts_lock, locked, playing, finishing, targetPlaying>>
\* wake-word loop: else: tts_say("I heard you, but I didn't catch the command.")
WakeNoCommand ==
    /\ vpc = "w_none"
    /\ tts_say(VoiceOut, cfg.tts)
    /\ vpc' = "w_top"
    /\ UNCHANGED <<cfg, vret, running, input_mode, output_mode, pendingStop, iterStop,
                   calledWhilePlaying, calledQuiet, stream>>
    /\ UNCHANGED <<is_speaking, tts_lock, locked, playing, finishing, targetPlaying>>
    /\ UNCHANGED dispatchVars
Wake ==
    \/ WakeTop \/ WakeRead \/ WakeMic \/ WakeListen \/ WakeAfterSr \/ WakeRhino
    \/ WakeDispatch \/ WakeNoCommand

\* a fallback that enters its loop without looking at the microphone
SrStartAnyMic ==
    /\ vpc = "sr_start"
    /\ vpc' = IF cfg.has_sr THEN "s_top" ELSE "done"
    /\ UNCHANGED <<vret, pendingStop, iterStop>> /\ ListenerOnly
\* SpeechRecognition-only fallback: if HAS_SR: mic = sr.Microphone()
SrStart ==
    /\ vpc = "sr_start"
    /\ vpc' = IF cfg.has_sr /\ cfg.mic THEN "s_top" ELSE "done"
    /\ UNCHANGED <<vret, pendingStop, iterStop>> /\ ListenerOnly
\* fallback loop: while self.running: is_speaking, then input_mode
SrTop ==
    /\ vpc = "s_top"
    /\ iterStop' = FALSE
    /\ IF ~running THEN vpc' = "done" /\ UNCHANGED <<vret, pendingStop>>
       ELSE IF is_speaking THEN ObserveSpeaking("s_top")
       ELSE /\ vpc' = IF input_mode # "voice" THEN "s_top" ELSE "s_listen"
            /\ UNCHANGED <<vret, pendingStop>>
    /\ ListenerOnly
\* fallback loop: r.listen and recognize_google end with a text or raise
SrListen ==
    /\ vpc = "s_listen"
    /\ \E text \in BOOLEAN : vpc' = IF text THEN "s_dispatch" ELSE "s_top"
    /\ UNCHANGED <<vret, pendingStop, iterStop>> /\ ListenerOnly
\* fallback loop: name, nl_execute_from_text, tts_say; an exception is printed
SrDispatch ==
    /\ vpc = "s_dispatch"
    /\ NlExecute(VoiceEnv, NameAfterExtract, VoiceOut)
    /\ vpc' = "s_top"
    /\ UNCHANGED <<cfg, vret, running, input_mode, output_mode, pendingStop, iterStop,
                   calledWhilePlaying, calledQuiet, stream>>
    /\ UNCHANGED <<is_speaking, tts_lock, locked, playing, finishing, targetPlaying>>
Sr == SrStart \/ SrTop \/ SrListen \/ SrDispatch

(***************************************************************************)
(* The front end: SaintGUI and main.                                       *)
(***************************************************************************)
\* SaintGUI.execute_action on the text heard: nothing to do on an empty box
ExecuteAction ==
    /\ Strip(heard) # ""
    /\ NlExecute(VoiceEnv, profile.name, VoiceOut)
    /\ UNCHANGED <<is_speaking, tts_lock, locked, playing, finishing, targetPlaying>>
    /\ UNCHANGED voiceVars
\* SaintGUI.save_config
save_config(input, output) ==
    /\ input_mode' = input /\ output_mode' = output
    /\ <<input, output>> # <<input_mode, output_mode>>
    /\ UNCHANGED <<cfg, vpc, vret, running, pendingStop, iterStop, calledWhilePlaying,
                   calledQuiet, stream>>
    /\ UNCHANGED ttsVars /\ UNCHANGED dispatchVars
\* main: finally: app.vlistener.running = False
Quit ==
    /\ running /\ running' = FALSE
    /\ UNCHANGED <<cfg, vpc, vret, input_mode, output_mode, pendingStop, iterStop,
                   calledWhilePlaying, calledQuiet, stream>>
    /\ UNCHANGED ttsVars /\ UNCHANGED dispatchVars
FrontEnd ==
    \/ ExecuteAction
    \/ \E input \in {"voice", "text"}, output \in {"text", "both"} :
           save_config(input, output)
    \/ Quit

InitVoice ==
    /\ heard \in VoiceTexts
    /\ cfg \in Configs
    /\ Constructed

NextVoice == VoiceStart \/ Wake \/ Sr \/ tts_stop \/ Worker \/ FrontEnd

SpecVoice == InitVoice /\ [][NextVoice]_vars

\* the listener beside a front end that only dispatches typed text: the modes
\* stay as configured and nobody quits
NextListen == VoiceStart \/ Wake \/ Sr \/ tts_stop \/ Worker \/ ExecuteAction

SpecListen == InitVoice /\ [][NextListen]_vars

(***************************************************************************)
(* tts_say and tts_stop called directly, in any order and at any time:     *)
(* the listener thread makes its calls one after the other, the front end  *)
(* calls tts_say while the listener is anywhere.                           *)
(***************************************************************************)
\* the engine is there, or pyttsx3 is missing
TtsConfigs == {FullConfig, [FullConfig EXCEPT !.tts = FALSE]}
\* the listener is between two calls
BetweenCalls == {"start", "said"}
\* the listener thread: AGENT.tts_say(...), which returns at once
CallSay ==
    /\ vpc \in BetweenCalls
    /\ tts_say(1, cfg.tts)
    /\ vpc' = "said"
    /\ UNCHANGED <<cfg, vret, running, input_mode, output_mode, pendingStop, iterStop,
                   calledWhilePlaying, calledQuiet, stream>>
    /\ UNCHANGED <<is_speaking, tts_lock, locked, playing, finishing, targetPlaying>>
    /\ UNCHANGED dispatchVars
\* the listener thread: AGENT.tts_stop()
CallStop ==
    /\ vpc \in BetweenCalls
    /\ vpc' = "call_stop" /\ vret' = "start" /\ pendingStop' = TRUE
    /\ UNCHANGED <<cfg, running, input_mode, output_mode, iterStop, calledWhilePlaying,
                   calledQuiet, stream>>
    /\ UNCHANGED ttsVars /\ UNCHANGED dispatchVars
\* the front end thread: AGENT.tts_say(res["spoken_summary"])
FrontSay ==
    /\ tts_say(1, cfg.tts)
    /\ UNCHANGED <<is_speaking, tts_lock, locked, playing, finishing, targetPlaying>>
    /\ UNCHANGED voiceVars /\ UNCHANGED dispatchVars

InitTts ==
    /\ heard = "say hi"
    /\ cfg \in TtsConfigs
    /\ Constructed

NextTts == CallSay \/ CallStop \/ FrontSay \/ tts_stop \/ Worker

SpecTts == InitTts /\ [][NextTts]_vars

(***************************************************************************)
(* Two threads dispatching at the same time: RobotHead.record_action step  *)
(* by step.  The threads share the dict profile["action_counts"]; the      *)
(* interpreter may switch threads between the ac.get and the store.        *)
(***************************************************************************)
\* utterances whose dispatch records an action
RecordTexts == {"say hi", "open youtube", "pause spotify"}
\* thread t calls nl_execute_from_text(heard): the executor runs and the
\* dispatcher reaches its calls of AGENT.record_action
RecordCall(t) ==
    /\ rec[t].pc = "idle" /\ rec[t].n < MaxRecords
    /\ rec' = [rec EXCEPT ![t] =
                  [pc |-> "get", ac |-> 0, n |-> @.n,
                   todo |-> nl_execute_from_text(heard, BaseEnv, profile.name, 0).recorded]]
    /\ rec'[t].todo # << >>
    /\ UNCHANGED <<heard, profile, log>> /\ UNCHANGED ttsVars /\ UNCHANGED voiceVars
\* record_action: ac = self.profile.get("action_counts", {}); ac.get(action_name, 0)
RecordGet(t) ==
    /\ rec[t].pc = "get"
    /\ rec' = [rec EXCEPT ![t].pc = "set",
                          ![t].ac = profile.action_counts[Head(rec[t].todo)]]
    /\ UNCHANGED <<heard, profile, log>> /\ UNCHANGED ttsVars /\ UNCHANGED voiceVars
\* record_action: ac[action_name] = ... + 1; self.profile["action_counts"] = ac;
\* self._save_profile()
RecordSet(t) ==
    /\ rec[t].pc = "set"
    /\ profile' = [profile EXCEPT !.action_counts[Head(rec[t].todo)] = rec[t].ac + 1]
    /\ rec' = [rec EXCEPT ![t].todo = Tail(@),
                          ![t].pc = IF Tail(rec[t].todo) = << >> THEN "idle" ELSE "get",
                          ![t].n = IF Tail(rec[t].todo) = << >> THEN @ + 1 ELSE @]
    /\ UNCHANGED <<heard, log>> /\ UNCHANGED ttsVars /\ UNCHANGED voiceVars

InitRecord ==
    /\ heard \in RecordTexts
    /\ cfg = FullConfig
    /\ Constructed

NextRecord == \E t \in Threads : RecordCall(t) \/ RecordGet(t) \/ RecordSet(t)

SpecRecord == InitRecord /\ [][NextRecord]_vars

(***************************************************************************)
(* Properties of the dispatcher, over the calls in log.                    *)
(***************************************************************************)
\* the grammar's reading of the utterance under test
Parsed == parse_nl_to_action(Strip(heard))
\* the command of an utterance of the form "run <cmd>", trimmed
RunCommand == Strip(ReHeadSpaces(Strip(Lower(Strip(heard))), "run").g)
IsRunInput == ReHeadSpaces(Strip(Lower(Strip(heard))), "run").ok
\* call i of the log invoked executor fn
Invoked(i, fn) == \E j \in DOMAIN log[i].out.calls : log[i].out.calls[j].fn = fn
\* call i of the log returned a Result of the given action kind
ReturnedKind(i, kind) ==
    /\ ~log[i].out.raised
    /\ "action" \in DOMAIN log[i].out.res
    /\ log[i].out.res.action = kind
\* call i refused the command: run_shell not called, chat_fallback with reason unsafe_shell
RefusedUnsafe(i) ==
    /\ ~Invoked(i, "run_shell")
    /\ ReturnedKind(i, "chat_fallback")
    /\ log[i].out.res.reason = "unsafe_shell"

\* Every kind the grammar produces is in the registry, so the not_whitelisted branch
\* of nl_execute_from_text is taken by no utterance.
ParsedKindsWhitelisted == Parsed.action = "None" \/ ACTION_WHITELIST(Parsed.action)

\* C2 (as amended): for every input that parse_nl_to_action turns into a run_shell
\* action whose command does not start with a safe prefix, nl_execute_from_text never
\* calls run_shell and returns a chat_fallback Result whose reason is unsafe_shell.
C2_UnsafeRunRefused ==
    (log # << >> /\ Parsed.action = "run_shell" /\ ~HasSafePrefix(RunCommand))
    => \A i \in DOMAIN log : RefusedUnsafe(i)
\* an unsafe command has been dispatched and refused
C2_Witness ==
    /\ log # << >>
    /\ Parsed.action = "run_shell" /\ ~HasSafePrefix(RunCommand)
    /\ RefusedUnsafe(1)
\* C2 as stated: every input "run <cmd>" whose command does not start with a safe
\* prefix is refused with chat_fallback / unsafe_shell and run_shell is not called.
C2_AsStated ==
    \A i \in DOMAIN log : (IsRunInput /\ ~HasSafePrefix(RunCommand)) => RefusedUnsafe(i)

\* C3 as stated: a run_shell action carries allowed = TRUE exactly when the trimmed
\* command starts with a safe prefix, and allowed = FALSE otherwise.
C3_AllowedIffSafePrefix ==
    \A i \in DOMAIN log :
        Parsed.action = "run_shell" =>
            /\ "allowed" \in DOMAIN Parsed.params
            /\ Parsed.params.allowed = HasSafePrefix(RunCommand)

\* C4 as stated: nl_execute_from_text never propagates a fault to its caller; every
\* call returns a Result.
C4_NeverRaises == \A i \in DOMAIN log : ~log[i].out.raised

\* C5 as stated: on every input that parse_nl_to_action does not recognise,
\* nl_execute_from_text returns a Result of kind chat, never an error Result.
C5_UnparsedIsChat ==
    \A i \in DOMAIN log : Parsed.action = "None" => ReturnedKind(i, "chat")

\* C6 as stated: two calls on "open youtube" with the launcher succeeding return two
\* Results of kind open and leave action_counts["open"] exactly 2 higher, no other
\* count being changed.
C6_OpenYoutubeTwice ==
    (heard = "open youtube" /\ Len(log) = 2 /\ \A i \in 1..2 : log[i].env.ext = "ok") =>
        /\ \A i \in 1..2 : ReturnedKind(i, "open")
        /\ \A k \in RecordedNames :
               profile.action_counts[k] =
                   log[1].before.action_counts[k] + (IF k = "open" THEN 2 ELSE 0)

\* C7 as stated: "search youtube for Q" parses to youtube_search with q = Q and its
\* dispatch returns action youtube_search with the summary "Searching YouTube for 'Q'.".
C7_SearchYoutubeFor ==
    LET m == ReSearchYoutubeFor(Strip(Lower(Strip(heard))))
    IN \A i \in DOMAIN log :
           (m.ok /\ log[i].env.ext = "ok") =>
               /\ Parsed.action = "youtube_search"
               /\ Parsed.params.q = Strip(m.g)
               /\ ReturnedKind(i, "youtube_search")
               /\ log[i].out.res.assistant = "Searching YouTube for '" \o Strip(m.g) \o "'."

(***************************************************************************)
(* Properties of the voice listener and the TTS workers.                   *)
(***************************************************************************)
\* C8 as stated: the listener is never capturing a command utterance while a TTS
\* worker is playing an utterance.
C8_SpeakingExcludesCapturing == ~(vpc \in Capturing /\ playing > 0)

\* C9: no capture follows a read of is_speaking as true without a call of tts_stop in
\* between: while the listener reads a wake-word frame or captures a command, every
\* such read has been answered by tts_stop.
C9_StopBeforeCapture == vpc \in Capturing \cup {"w_read"} => ~pendingStop
\* the listener captures in an iteration in which it called tts_stop
C9_Witness == vpc = "w_listen" /\ iterStop

\* C10 as stated: when tts_stop is called while a worker is playing, the engine's stop
\* is applied while that utterance is still playing.
C10_StopIsImmediate == (vpc = "stop_engine" /\ calledWhilePlaying) => targetPlaying

\* C11: no two workers are inside the engine's say / runAndWait at the same
\* time, however the tts_say calls of the two threads and the tts_stop
\* calls interleave.
C11_OneUtteranceAtATime == playing <= 1
\* one worker plays, another waits for the lock, and a tts_stop is under way
C11_Witness == playing = 1 /\ waiting >= 1 /\ vpc = "stop_acquire"

\* C12: a tts_stop called while no utterance plays and no worker is pending
\* returns, starts no worker and leaves is_speaking false: without an engine
\* in its first step, with an engine in the step that leaves the with block.
C12_QuietStopReturns ==
    [][/\ (vpc = "call_stop" /\ vpc' # vpc /\ ~cfg.tts /\ LiveWorkers = 0)
           => (vpc' = vret /\ is_speaking' = FALSE /\ LiveWorkers' = 0)
       /\ (vpc = "call_stop" /\ vpc' # vpc /\ cfg.tts /\ LiveWorkers = 0)
           => (vpc' = "stop_acquire" /\ LiveWorkers' = 0)
       /\ (vpc \in {"stop_acquire", "stop_engine"} /\ vpc' # vpc /\ calledQuiet)
           => (LiveWorkers' = LiveWorkers)
       /\ (vpc = "stop_clear" /\ vpc' # vpc /\ calledQuiet)
           => (vpc' = vret /\ is_speaking' = FALSE /\ LiveWorkers' = LiveWorkers)]_vars
\* the engine's stop has run in a tts_stop called while nothing was playing
\* or pending, and no worker has been started since
C12_Witness == vpc = "stop_clear" /\ calledQuiet /\ LiveWorkers = 0

\* C13: without a TTS engine is_speaking is false in every reachable state
\* and no worker thread exists, whatever tts_say and tts_stop calls are made.
C13_NoEngineNeverSpeaks == ~cfg.tts => (is_speaking = FALSE /\ LiveWorkers = 0)
\* without an engine, tts_stop has been called and returned, and a tts_say
\* called after it has returned too
C13_Witness == ~cfg.tts /\ iterStop /\ vpc = "said"

\* C14 as stated: on either backend a capture that yields no text ends its
\* cycle with the "didn't catch the command" summary, which is spoken when
\* the output mode includes voice and an engine is there: the step that takes
\* the loop back to its top has called tts_say.
C14_NoTextIsSummarised ==
    [][(/\ vpc \in {"w_none", "s_listen"} /\ vpc' \in {"w_top", "s_top"}
        /\ VoiceOut = 1 /\ cfg.tts)
       => waiting' = waiting + 1]_vars

\* the kinds one dispatch of the utterance records
RecordedKinds == nl_execute_from_text(heard, BaseEnv, "", 0).recorded
\* C15 as stated: whenever no dispatch is under way, each action count has
\* grown by exactly the number of times its kind was recorded by the
\* dispatches of the two threads.
C15_NoIncrementLost ==
    (\A t \in Threads : rec[t].pc = "idle")
    => \A k \in RecordedNames :
           profile.action_counts[k]
           = (rec["voice"].n + rec["front"].n)
             * Cardinality({j \in DOMAIN RecordedKinds : RecordedKinds[j] = k})

\* the action counts when call i had returned
CountsAfter(i) ==
    IF i = Len(log) THEN profile.action_counts ELSE log[i + 1].before.action_counts
\* call i ran the executor of an action kind, which handed back a result
Executed(i) ==
    /\ ~log[i].out.raised
    /\ "action" \in DOMAIN log[i].out.res
    /\ log[i].out.res.action \in ACTION_DEFINITIONS
    /\ "result" \in DOMAIN log[i].out.res
\* C16 as stated: a dispatch whose executor reported an error in its result
\* leaves every action count unchanged, and a dispatch whose executor
\* succeeded adds exactly 1 to the count of its kind.
C16_CountedOnlyOnSuccess ==
    \A i \in DOMAIN log :
        Executed(i) =>
            IF "error" \in DOMAIN log[i].out.res.result
            THEN CountsAfter(i) = log[i].before.action_counts
            ELSE CountsAfter(i)
                 = [log[i].before.action_counts EXCEPT ![log[i].out.res.action] = @ + 1]

\* profile["name"] when call i had returned
NameAfter(i) == IF i = Len(log) THEN profile.name ELSE log[i + 1].before.name
\* C17 as stated: whenever the text given to nl_execute_from_text holds a
\* name phrase followed by a name X, the profile's name is X once the
\* dispatch has returned, whether or not the text parses as an action.
C17_NameSavedOnEveryDispatch ==
    \A i \in DOMAIN log :
        (~log[i].out.raised /\ try_extract_name(Strip(heard)).ok)
        => NameAfter(i) = try_extract_name(Strip(heard)).g

\* C18 as stated: a text equal to the dispatched one after trimming and
\* lower-casing is parsed to the same action kind, or both to none.
C18_ParseIgnoresCase ==
    \A i \in DOMAIN log :
        \A t \in Texts :
            Lower(Strip(t)) = Lower(Strip(heard))
            => parse_nl_to_action(t).action = parse_nl_to_action(heard).action

\* the Spotify web player that the unconfigured pause branch opens
SpotifyWeb == "https://open.spotify.com"
\* call i dispatched a pause while the media client was not configured
PauseUnconfigured(i) ==
    log[i].env.spot = "unconfigured" /\ Parsed.action = "spotify_pause"
\* the Result of the unconfigured pause branch ("--" stands for the em dash)
CantPause ==
    [action |-> "spotify_pause", result |-> [error |-> "spotify not configured"],
     assistant |-> "Can't pause -- Spotify not configured."]
\* C19 (as amended): a pause dispatched while the media client is not
\* configured never calls the client's pause and leaves the action counts
\* unchanged; it opens the Spotify web player and returns the "not
\* configured" Result, or the execution-error Result when opening raised.
C19_PauseNotConfigured ==
    \A i \in DOMAIN log :
        PauseUnconfigured(i) =>
            /\ ~Invoked(i, "SPOT.pause")
            /\ Invoked(i, "open_app")
            /\ CountsAfter(i) = log[i].before.action_counts
            /\ ~log[i].out.raised
            /\ IF open_app(SpotifyWeb, log[i].env).raised
               THEN log[i].out.res.error = "execution error"
               ELSE log[i].out.res = CantPause
\* "pause spotify" has been dispatched with the client not configured and
\* the "not configured" Result came back
C19_Witness ==
    /\ log # << >> /\ Strip(heard) = "pause spotify"
    /\ PauseUnconfigured(1) /\ log[1].out.res = CantPause
\* C19 as stated: the dispatch never calls the client's pause, returns the
\* "not configured" Result and leaves the action counts unchanged.
C19_AsStated ==
    \A i \in DOMAIN log :
        PauseUnconfigured(i) =>
            /\ ~Invoked(i, "SPOT.pause")
            /\ CountsAfter(i) = log[i].before.action_counts
            /\ ~log[i].out.raised
            /\ log[i].out.res = CantPause

\* the places of the wake-word loop, and of the fallback loop
WakeLoop ==
    {"w_top", "w_read", "w_mic", "w_listen", "w_after_sr", "w_rhino", "w_dispatch", "w_none"}
SrLoop == {"s_top", "s_listen", "s_dispatch"}
\* the places inside tts_stop, from which the listener returns into its loop
InStop == {"call_stop", "stop_acquire", "stop_engine", "stop_clear"}
\* C20 as stated: while running is true no cycle ends the loop it belongs
\* to, whatever was heard: a step of the listener made inside the wake-word
\* loop stays in the wake-word loop, one made inside the fallback loop stays
\* in the fallback loop.
C20_LoopSurvivesCycle ==
    [][/\ (running /\ vpc \in WakeLoop) => vpc' \in WakeLoop \cup InStop
       /\ (running /\ vpc \in SrLoop) => vpc' \in SrLoop \cup InStop]_vars

\* C21 as stated: the backend chosen at the start is kept: while running is
\* true, a listener that is inside the wake-word loop never goes on to the
\* SpeechRecognition-only fallback.
C21_BackendKept == [][(running /\ vpc \in WakeLoop) => vpc' # "sr_start"]_vars

\* the wake-word detector and its audio stream were set up
WakeReady == cfg.porcupine /\ cfg.audio
\* speech-to-text and a microphone are there
SrReady == cfg.has_sr /\ cfg.mic
\* C22: the listener follows the fallback chain.  From its start it enters
\* the wake-word loop exactly when the detector was set up; when it leaves the
\* selection for the fallback, it enters the continuous loop exactly when
\* speech-to-text and a microphone are there; with neither backend it ends
\* at once, is never in a loop, and the front end still dispatches text.
C22_FallbackChain ==
    [][/\ (vpc = "start" /\ vpc' # vpc)
          => vpc' = IF WakeReady THEN "w_top" ELSE "sr_start"
       /\ (vpc = "sr_start" /\ vpc' # vpc)
          => vpc' = IF SrReady THEN "s_top" ELSE "done"
       /\ (vpc' \in WakeLoop => WakeReady) /\ (vpc' \in SrLoop => SrReady)
       /\ (~WakeReady /\ ~SrReady) => vpc' \in {"start", "sr_start", "done"}
       /\ vpc = "done" => vpc' = "done"]_vars
\* with no backend the listener has ended, and a text typed afterwards into
\* the front end has been dispatched
C22_Witness ==
    /\ ~WakeReady /\ ~SrReady /\ vpc = "done"
    /\ log # << >> /\ ~log[Len(log)].out.raised

\* C23 as stated, its safety part: a listener that had a backend ends only
\* after running was set to false, and when it has ended the audio stream it
\* opened is not left open.
C23_EndsOnlyWhenStoppedAndReleases ==
    vpc = "done" => /\ (WakeReady \/ SrReady) => ~running
                    /\ stream # "open"

\* the calls of executor fn made by call i, in order
CallsOf(i, fn) == SelectSeq(log[i].out.calls, LAMBDA c : c.fn = fn)
\* the position a seek by the parsed offset aims at, before clamping
SeekTarget(i) == log[i].env.progress_ms + Parsed.params.offset_seconds * 1000
\* C24: a spotify_seek dispatched with a configured client fetches one
\* playback snapshot; when the snapshot is an error, seek is not called, the
\* error is the Result's payload and no action count changes; otherwise seek
\* is called once with max(0, progress_ms + offset_seconds * 1000), which is
\* never negative.
C24_SeekPosition ==
    (log # << >> /\ Parsed.action = "spotify_seek") =>
    \A i \in DOMAIN log :
        log[i].env.spot # "unconfigured" =>
            /\ ReturnedKind(i, "spotify_seek")
            /\ Len(CallsOf(i, "SPOT.current_playback")) = 1
            /\ IF log[i].env.spot = "error"
               THEN /\ CallsOf(i, "SPOT.seek") = << >>
                    /\ log[i].out.res.result = [error |-> "not authenticated"]
                    /\ CountsAfter(i) = log[i].before.action_counts
               ELSE /\ Len(CallsOf(i, "SPOT.seek")) = 1
                    /\ CallsOf(i, "SPOT.seek")[1].arg >= 0
                    /\ CallsOf(i, "SPOT.seek")[1].arg
                       = IF SeekTarget(i) < 0 THEN 0 ELSE SeekTarget(i)
\* a rewind past the start of the track has been dispatched and seek was
\* called with position 0
C24_Witness ==
    /\ log # << >> /\ Parsed.action = "spotify_seek"
    /\ log[1].env.spot = "ok" /\ SeekTarget(1) < 0
    /\ CallsOf(1, "SPOT.seek") = <<Call("SPOT.seek", 0)>>

\* the bookmark query as find_and_open_bookmark normalises it
BookmarkQuery == Strip(Lower(Parsed.params.q))
\* the first index of a set of bookmark indexes
FirstOf(I) == CHOOSE i \in I : \A j \in I : i <= j
\* the bookmarks of each tier; the token tier holds every bookmark whose
\* name + " " + url contains some token of the query
ExactTier == {b \in DOMAIN BOOKMARKS : Lower(BOOKMARKS[b].name) = BookmarkQuery}
TitleTier == {b \in DOMAIN BOOKMARKS : Contains(Lower(BOOKMARKS[b].name), BookmarkQuery)}
UrlTier == {b \in DOMAIN BOOKMARKS : Contains(Lower(BOOKMARKS[b].url), BookmarkQuery)}
AnyTokenTier ==
    {b \in DOMAIN BOOKMARKS :
        \E k \in DOMAIN Split(BookmarkQuery) :
            Contains(Lower(BOOKMARKS[b].name \o " " \o BOOKMARKS[b].url),
                     Split(BookmarkQuery)[k])}
\* the first non-empty tier in priority order, or the empty set
ChosenTier ==
    IF ExactTier # {} THEN ExactTier
    ELSE IF TitleTier # {} THEN TitleTier
    ELSE IF UrlTier # {} THEN UrlTier
    ELSE AnyTokenTier
\* C25 as stated: the bookmark opened is the first one, in source order, of
\* the first non-empty tier; in the token tier that is the earliest bookmark
\* matching any token of the query.
C25_FirstOfFirstTier ==
    \A i \in DOMAIN log :
        (/\ Parsed.action = "open_bookmark" /\ BookmarkQuery # ""
         /\ log[i].env.bm = "store" /\ ReturnedKind(i, "open_bookmark"))
        => IF ChosenTier = {} THEN ~log[i].out.res.result.found
           ELSE /\ log[i].out.res.result.found
                /\ log[i].out.res.result.index = FirstOf(ChosenTier)

\* C26 as stated: an input "run <cmd>" whose command starts with a safe
\* prefix is handed to the command runner, comes back as a run_shell Result
\* and adds 1 to the count of run_shell.
C26_SafeRunExecuted ==
    \A i \in DOMAIN log :
        (IsRunInput /\ HasSafePrefix(RunCommand)) =>
            /\ Invoked(i, "run_shell")
            /\ ReturnedKind(i, "run_shell")
            /\ CountsAfter(i)
               = [log[i].before.action_counts EXCEPT !["run_shell"] = @ + 1]

\* C27 as stated: every call of nl_execute_from_text ends with a Result, and
\* the reply of the conversational responder in it is a non-empty string;
\* in particular for a text that is not parsed, begins with "open ",
\* "launch " or "start " and is answered by the rules.
C27_AlwaysEndsWithResult ==
    \A i \in DOMAIN log :
        /\ ~log[i].out.raised
        /\ ReturnedKind(i, "chat") => Truthy(log[i].out.res, "response")
        /\ (Parsed.action = "None" /\ log[i].env.pico = "none"
            /\ \E w \in {"open ", "launch ", "start "} : StartsWith(Lower(Strip(heard)), w))
           => ReturnedKind(i, "chat")

\* C28 as stated: whenever a worker is inside say / runAndWait, is_speaking
\* is true.
C28_SpeakingFlagAccurate == playing > 0 => is_speaking

\* C29 as stated, for the start of a capture: while the input mode is not
\* "voice" the listener does not begin to record a command utterance, in
\* either loop.
C29_NoCaptureOutsideVoiceMode ==
    [][(input_mode # "voice" /\ vpc \notin Capturing) => vpc' \notin Capturing]_vars

\* every collaborator of the dispatch succeeds
AllSucceed(env) == env.ext = "ok" /\ env.spot = "ok" /\ env.bm = "store" /\ env.tts
\* C30 as stated: with every collaborator succeeding, the dispatch of a
\* parsed and whitelisted action returns neither the "execution error" nor
\* the "unhandled action" Result.
C30_ExecutorsWork ==
    \A i \in DOMAIN log :
        (Parsed.action # "None" /\ ACTION_WHITELIST(Parsed.action) /\ AllSucceed(log[i].env))
        => /\ ~log[i].out.raised
           /\ "error" \in DOMAIN log[i].out.res
              => log[i].out.res.error \notin {"execution error", "unhandled action"}

=============================================================================
